---------------------------- MODULE Spec2Model ----------------------------
(***************************************************************************)
(* Probabilistic data structures: BloomFilter (BLOOM_FILTER/BloomFilter.py)*)
(* CountMinSketch (COUNT_MIN_SKETCH/COUNT_MIN_SKETCH.py) and the LogLog    *)
(* family (HYPERLOGLOG/HYPERLOGLOG.py).                                    *)
(*                                                                         *)
(* Representation of Python values:                                        *)
(*   - a float parameter (false_positive_rate, epsilon, delta) is given in *)
(*     hundredths: 50 stands for 0.5, 200 for 2.0, -50 for -0.5;           *)
(*   - math.log is tabulated in units of 10^-4 (MathLog);                  *)
(*   - a list or array indexed from 0 is a function on 0..len-1;           *)
(*   - an exception leaves its name in the state / ret variable.           *)
(***************************************************************************)
EXTENDS Integers, Sequences, FiniteSets, TLC

VARIABLES
    mmh3,            \* the process's hash function: [item, seed] -> signed 32-bit
    \* ---- BloomFilter instance
    bf_state,        \* "none" | "ok" | the exception __init__ raised
    size, hash_count, bit_array, elements_count,
    bf_args,         \* the arguments __init__ was called with
    bf_ret,          \* the last call on the instance and what it returned
    bf_passed,       \* history: items passed to add
    bf_added,        \* history: items whose add returned
    \* ---- CountMinSketch instance
    cms_state,       \* "none" | "ok" | the exception construction raised
    params,          \* CMSParameters: width, depth, epsilon, delta
    width, depth, sketch, total_items,
    cms_ret,         \* the last call on the instance and what it returned
    true_count,      \* history: per item, the sum of the counts add accepted
    \* ---- one cardinality estimator instance
    est_state,       \* "none" | "ok" | the exception __init__ raised
    kind,            \* "LogLog" | "SuperLogLog" | "HyperLogLog"
    est_params,      \* EstimatorParams: precision, num_registers
    registers, alpha, truncate_threshold,
    est_args,        \* the precision __init__ was called with
    est_ret,         \* the last call on the instance and what it returned
    \* ---- MinHash instance
    pyhash,          \* the process's built-in hash(x): item -> int
    mh_state,        \* "none" | "ok"
    num_hashes,
    hash_functions,  \* the (a, b, p) each lambda captured, in order
    mh_ret,          \* the last call and what it returned
    mh_produced,     \* history: signatures compute_signature returned
    mh_first,        \* history: per input set, the first signature returned
    \* ---- two shards fed a split of the stream the instances above are fed
    bf_shards,       \* bit_array of shard 1 and shard 2
    cms_shards,      \* sketch and total_items of shard 1 and shard 2
    est_shards,      \* registers of shard 1 and shard 2
    \* ---- CardinalityProcessor
    proc_state,      \* "none" | "ok" | the exception __init__ raised
    proc_registers   \* registers of loglog, superloglog, hyperloglog

bf_vars == <<bf_state, size, hash_count, bit_array, elements_count,
             bf_args, bf_ret, bf_passed, bf_added>>
cms_vars == <<cms_state, params, width, depth, sketch, total_items,
              cms_ret, true_count>>
est_vars == <<est_state, kind, est_params, registers, alpha,
              truncate_threshold, est_args, est_ret>>
mh_vars == <<pyhash, mh_state, num_hashes, hash_functions, mh_ret,
             mh_produced, mh_first>>
shard_vars == <<bf_shards, cms_shards, est_shards>>
proc_vars == <<proc_state, proc_registers>>
vars == <<mmh3, bf_vars, cms_vars, est_vars, mh_vars, shard_vars, proc_vars>>
not_bf_vars == <<cms_vars, est_vars, mh_vars, shard_vars, proc_vars>>
not_cms_vars == <<bf_vars, est_vars, mh_vars, shard_vars, proc_vars>>
not_est_vars == <<mmh3, bf_vars, cms_vars, mh_vars, shard_vars, proc_vars>>
not_mh_vars == <<mmh3, bf_vars, cms_vars, est_vars, shard_vars, proc_vars>>
\* the three estimators of a CardinalityProcessor have the same params
\* (est_params); the single estimator instance is left alone
not_proc_vars == <<mmh3, bf_vars, cms_vars, mh_vars, shard_vars, est_state, kind,
                   registers, alpha, truncate_threshold, est_args, est_ret>>

---------------------------------------------------------------------------
\* Bounds of the model
MaxElements == 3        \* adds per BloomFilter instance
MaxBigAdds == 2         \* counts of 2^62 added to one CountMinSketch
MaxSmallTotal == 2      \* sum of the small counts added to one CountMinSketch

Items == {"a", "b"}
\* values of mmh3.hash(str(item), seed): signed 32-bit integers
HashVals == {-4, 0, 7}
Seeds == 0..1
\* expected_elements and false_positive_rate (hundredths) offered to __init__
ExpectedElementsInputs == -2..3
RateInputs == {-50, 0, 50, 70, 100, 200}
\* epsilon and delta (hundredths) offered to CMSParameters.from_error_rate
EpsilonInputs == {-50, 0, 50, 90, 100, 150}
DeltaInputs == {0, 20, 50, 100}
\* CMSParameters objects built field by field (the dataclass constructor)
ParamsInputs ==
    { [width |-> 3, depth |-> 2, epsilon |-> 150, delta |-> 50],
      [width |-> 3, depth |-> 2, epsilon |-> 50, delta |-> -50],
      [width |-> 0, depth |-> 2, epsilon |-> 50, delta |-> 50],
      [width |-> 3, depth |-> 0, epsilon |-> 50, delta |-> 50],
      [width |-> 3, depth |-> -1, epsilon |-> 50, delta |-> 50] }

\* precisions offered to the estimators' __init__
PrecisionInputs == {3, 4, 5, 7, 17}
Kinds == {"LogLog", "SuperLogLog", "HyperLogLog"}
\* values of mmh3.hash(str(item), signed=False): unsigned 32-bit integers,
\* each written <<hi, lo>> for hi * 2^16 + lo
HashInputs ==
    { <<0, 0>>, <<65535, 65535>>, <<0, 17>>, <<1, 1>>, <<256, 2>>,
      <<0, 163>>, <<32768, 4>>, <<0, 69>> }

---------------------------------------------------------------------------
\* Python arithmetic

Abs(x) == IF x < 0 THEN -x ELSE x

\* math.ceil(a / b), b # 0
Ceil(a, b) == IF b > 0 THEN -((-a) \div b) ELSE -(a \div (-b))

\* a % b of Python ints, b # 0: the result has the sign of b
PyMod(a, b) == IF b > 0 THEN a % b ELSE -((-a) % (-b))

\* math.log(x) in units of 10^-4, x in hundredths; ValueError for x <= 0
MathLog(x) ==
    CASE x = 10   -> -23026
      [] x = 20   -> -16094
      [] x = 50   -> -6931
      [] x = 70   -> -3567
      [] x = 90   -> -1054
      [] x = 100  -> 0
      [] x = 200  -> 6931
      [] x = 500  -> 16094
      [] x = 1000 -> 23026

LogScale == 10000

---------------------------------------------------------------------------
\* BloomFilter

\* m = -(n * math.log(p)) / (math.log(2) ** 2); return math.ceil(m)
calculate_optimal_size(n, p) ==
    Ceil(-(n * MathLog(p) * LogScale), MathLog(200) * MathLog(200))

\* k = (self.size / n) * math.log(2); return math.ceil(k)
calculate_optimal_hash_count(sz, n) ==
    Ceil(sz * MathLog(200), n * LogScale)

\* [0] * self.size
ZeroList(n) == [i \in 0..(n - 1) |-> 0]

\* the outcome of BloomFilter(expected_elements, false_positive_rate)
BloomFilter_new(n, p) ==
    IF p <= 0 THEN [state |-> "ValueError", size |-> 0, hash_count |-> 0]
    ELSE LET sz == calculate_optimal_size(n, p) IN
         IF n = 0 THEN [state |-> "ZeroDivisionError", size |-> 0, hash_count |-> 0]
         ELSE [state |-> "ok", size |-> sz,
               hash_count |-> calculate_optimal_hash_count(sz, n)]

BloomFilter_init(n, p) ==
    /\ bf_state = "none"
    /\ LET r == BloomFilter_new(n, p) IN
        /\ bf_state' = r.state
        /\ size' = r.size
        /\ hash_count' = r.hash_count
        /\ bit_array' = IF r.state = "ok" THEN ZeroList(r.size) ELSE <<>>
    /\ elements_count' = 0
    /\ bf_args' = [expected_elements |-> n, false_positive_rate |-> p]
    /\ bf_ret' = [op |-> "init", item |-> "", result |-> "None"]
    /\ UNCHANGED <<mmh3, bf_passed, bf_added, not_bf_vars>>

\* [abs(mmh3.hash(str(item), seed) % self.size) for seed in range(self.hash_count)]
get_hash_values(item) ==
    [i \in 1..hash_count |-> Abs(PyMod(mmh3[item, i - 1], size))]

\* Mutant of SetBits: the loop stops after the first hash value.
SetBits_first_only(arr, hvs, i) ==
    IF i > Len(hvs) THEN [arr |-> arr, err |-> "None"]
    ELSE IF hvs[i] \notin DOMAIN arr THEN [arr |-> arr, err |-> "IndexError"]
    ELSE [arr |-> [arr EXCEPT ![hvs[i]] = 1], err |-> "None"]

\* Mutant of SetBits: the bit is flipped instead of set.
RECURSIVE SetBits_toggle(_, _, _)
SetBits_toggle(arr, hvs, i) ==
    IF i > Len(hvs) THEN [arr |-> arr, err |-> "None"]
    ELSE IF hvs[i] \notin DOMAIN arr THEN [arr |-> arr, err |-> "IndexError"]
    ELSE SetBits_toggle([arr EXCEPT ![hvs[i]] = 1 - @], hvs, i + 1)

\* for hash_val in hash_values: self.bit_array[hash_val] = 1
RECURSIVE SetBits(_, _, _)
SetBits(arr, hvs, i) ==
    IF i > Len(hvs) THEN [arr |-> arr, err |-> "None"]
    ELSE IF hvs[i] \notin DOMAIN arr THEN [arr |-> arr, err |-> "IndexError"]
    ELSE SetBits([arr EXCEPT ![hvs[i]] = 1], hvs, i + 1)

BloomFilter_add(item) ==
    /\ bf_state = "ok"
    /\ elements_count < MaxElements
    /\ LET r == SetBits(bit_array, get_hash_values(item), 1) IN
        /\ bit_array' = r.arr
        /\ elements_count' = IF r.err = "None" THEN elements_count + 1
                             ELSE elements_count
        /\ bf_ret' = [op |-> "add", item |-> item, result |-> r.err]
        /\ bf_added' = IF r.err = "None" THEN bf_added \cup {item} ELSE bf_added
    /\ bf_passed' = bf_passed \cup {item}
    /\ UNCHANGED <<mmh3, bf_state, size, hash_count, bf_args, not_bf_vars>>

\* for hash_val in hash_values: if self.bit_array[hash_val] == 0: return ...
RECURSIVE TestBits(_, _, _)
TestBits(arr, hvs, i) ==
    IF i > Len(hvs) THEN "Probably present"
    ELSE IF hvs[i] \notin DOMAIN arr THEN "IndexError"
    ELSE IF arr[hvs[i]] = 0 THEN "Definitely not present"
    ELSE TestBits(arr, hvs, i + 1)

check(item) == TestBits(bit_array, get_hash_values(item), 1)

BloomFilter_check(item) ==
    /\ bf_state = "ok"
    /\ bf_ret' = [op |-> "check", item |-> item, result |-> check(item)]
    /\ UNCHANGED <<mmh3, bf_state, size, hash_count, bit_array,
                   elements_count, bf_args, bf_passed, bf_added, not_bf_vars>>

BFInit ==
    /\ bf_state = "none"
    /\ size = 0
    /\ hash_count = 0
    /\ bit_array = <<>>
    /\ elements_count = 0
    /\ bf_args = [expected_elements |-> 0, false_positive_rate |-> 0]
    /\ bf_ret = [op |-> "none", item |-> "", result |-> "None"]
    /\ bf_passed = {}
    /\ bf_added = {}


---------------------------------------------------------------------------
\* Integers beyond 32 bits.  A Python int x is the pair <<q, r>> with
\* x = q * 2^62 + r and r small (|r| < 2^31): the counts offered to add are
\* small integers or 2^62, so sums stay in this form.

Small(r) == <<0, r>>
Big == <<1, 0>>                                   \* 2 ** 62
IntAdd(a, b) == <<a[1] + b[1], a[2] + b[2]>>
IntLeq(a, b) == a[1] < b[1] \/ (a[1] = b[1] /\ a[2] <= b[2])
IntLess(a, b) == a # b /\ IntLeq(a, b)

\* the value an np.int64 cell holds after storing x: x wrapped into
\* [-2^63, 2^63), that is [-2 * 2^62, 2 * 2^62)
Int64(x) ==
    LET fl == IF x[2] >= 0 THEN x[1] ELSE x[1] - 1      \* floor(x / 2^62)
        wfl == ((fl + 2) % 4) - 2
    IN  <<IF x[2] >= 0 THEN wfl ELSE wfl + 1, x[2]>>

\* counts offered to add: -1, 0, 1, 2 and 2 ** 62
CountInputs == {Small(-1), Small(0), Small(1), Small(2), Big}

---------------------------------------------------------------------------
\* CountMinSketch

Euler == 27183                 \* math.e in units of 10^-4

\* CMSParameters.from_error_rate(epsilon, delta)
from_error_rate(epsilon, delta) ==
    IF ~(0 < epsilon /\ epsilon < 100 /\ 0 < delta /\ delta < 100)
    THEN [state |-> "ValueError", params |-> [width |-> 0, depth |-> 0,
                                              epsilon |-> 0, delta |-> 0]]
    ELSE [state |-> "ok",
          params |-> [width |-> Ceil(Euler * 100, epsilon * LogScale),
                      depth |-> Ceil(MathLog(10000 \div delta), LogScale),
                      epsilon |-> epsilon, delta |-> delta]]

\* np.zeros((self.depth, self.width), dtype=np.int64)
np_zeros(d, w) == [i \in 0..(d - 1) |-> [j \in 0..(w - 1) |-> Small(0)]]

\* CountMinSketch.__init__(params)
CountMinSketch_new(p) ==
    /\ cms_state' = IF p.depth < 0 \/ p.width < 0 THEN "ValueError" ELSE "ok"
    /\ params' = p
    /\ width' = p.width
    /\ depth' = p.depth
    /\ sketch' = IF p.depth < 0 \/ p.width < 0 THEN <<>>
                 ELSE np_zeros(p.depth, p.width)
    /\ total_items' = Small(0)

\* CMSDataProcessor.__init__: params = from_error_rate(...); CountMinSketch(params)
CMSDataProcessor_init(epsilon, delta) ==
    /\ cms_state = "none"
    /\ LET r == from_error_rate(epsilon, delta) IN
        IF r.state = "ok" THEN CountMinSketch_new(r.params)
        ELSE /\ cms_state' = r.state
             /\ UNCHANGED <<params, width, depth, sketch, total_items>>
    /\ cms_ret' = [op |-> "from_error_rate", item |-> "",
                   args |-> <<epsilon, delta>>, result |-> "None"]
    /\ UNCHANGED <<mmh3, true_count, not_cms_vars>>

\* CountMinSketch(CMSParameters(width, depth, epsilon, delta))
CountMinSketch_init(p) ==
    /\ cms_state = "none"
    /\ CountMinSketch_new(p)
    /\ cms_ret' = [op |-> "init", item |-> "",
                   args |-> <<p.epsilon, p.delta>>, result |-> "None"]
    /\ UNCHANGED <<mmh3, true_count, not_cms_vars>>

\* [abs(mmh3.hash(str(item), seed) % self.width) for seed in range(self.depth)]
get_hash_indices(item) ==
    [i \in 0..(depth - 1) |-> Abs(PyMod(mmh3[item, i], width))]

\* for i, index in enumerate(indices): self.sketch[i][index] += count
add_rows(sk, indices, count) ==
    [i \in DOMAIN sk |->
        [j \in DOMAIN sk[i] |->
            IF j = indices[i] THEN Int64(IntAdd(sk[i][j], count)) ELSE sk[i][j]]]

\* the sum of the cells sk[i][j], sk[i][j + 1], .. of row i as a Python int
RECURSIVE row_sum(_, _, _)
row_sum(sk, i, j) ==
    IF j \notin DOMAIN sk[i] THEN Small(0)
    ELSE IntAdd(sk[i][j], row_sum(sk, i, j + 1))

\* Mutant of add_validate: only a negative count is rejected.
add_validate_negative_only(count) ==
    IF IntLess(count, Small(0)) THEN "ValueError" ELSE "None"

\* if count <= 0: raise ValueError("Count must be positive")
add_validate(count) ==
    IF IntLeq(count, Small(0)) THEN "ValueError" ELSE "None"

CountMinSketch_add(item, count) ==
    /\ cms_state = "ok"
    /\ IntLeq(count, Small(0)) \/
         /\ total_items[1] + count[1] <= MaxBigAdds
         /\ total_items[2] + count[2] <= MaxSmallTotal
    /\ LET err == IF add_validate(count) # "None" THEN add_validate(count)
                  ELSE IF depth > 0 /\ width = 0 THEN "ZeroDivisionError"
                  ELSE "None"
       IN
        /\ sketch' = IF err = "None"
                     THEN add_rows(sketch, get_hash_indices(item), count)
                     ELSE sketch
        /\ total_items' = IF err = "None" THEN IntAdd(total_items, count)
                          ELSE total_items
        /\ true_count' = IF err = "None"
                         THEN [true_count EXCEPT ![item] = IntAdd(@, count)]
                         ELSE true_count
        /\ cms_ret' = [op |-> "add", item |-> item, args |-> count, result |-> err]
    /\ UNCHANGED <<mmh3, cms_state, params, width, depth, not_cms_vars>>

\* min(self.sketch[i][index] for i, index in enumerate(indices))
RECURSIVE MinCell(_, _, _, _)
MinCell(sk, indices, i, best) ==
    IF i \notin DOMAIN sk THEN best
    ELSE LET c == sk[i][indices[i]] IN
         MinCell(sk, indices, i + 1, IF IntLess(c, best) THEN c ELSE best)

\* get_count(item): (estimated_count, error_bound), error_bound in hundredths
get_count(item) ==
    IF depth > 0 /\ width = 0 THEN "ZeroDivisionError"
    ELSE IF depth <= 0 THEN "ValueError"
    ELSE LET indices == get_hash_indices(item) IN
         [estimated_count |-> MinCell(sketch, indices, 1, sketch[0][indices[0]]),
          error_bound |-> <<total_items[1] * params.epsilon,
                            total_items[2] * params.epsilon>>]

CountMinSketch_get_count(item) ==
    /\ cms_state = "ok"
    /\ cms_ret' = [op |-> "get_count", item |-> item, args |-> Small(0),
                   result |-> get_count(item)]
    /\ UNCHANGED <<mmh3, cms_state, params, width, depth, sketch, total_items,
                   true_count, not_cms_vars>>

CMSInit ==
    /\ cms_state = "none"
    /\ params = [width |-> 0, depth |-> 0, epsilon |-> 0, delta |-> 0]
    /\ width = 0
    /\ depth = 0
    /\ sketch = <<>>
    /\ total_items = Small(0)
    /\ cms_ret = [op |-> "none", item |-> "", args |-> Small(0), result |-> "None"]
    /\ true_count = [x \in Items |-> Small(0)]

---------------------------------------------------------------------------
\* Cardinality estimators: EstimatorParams, BaseLogEstimator

Pow2(n) == 2 ^ n

Min(a, b) == IF a <= b THEN a ELSE b
Max(a, b) == IF a >= b THEN a ELSE b

\* int.bit_length()
RECURSIVE bit_length(_)
bit_length(x) == IF x = 0 THEN 0 ELSE 1 + bit_length(x \div 2)

\* x | 1
Or1(x) == IF x % 2 = 0 THEN x + 1 ELSE x

\* Mutant of from_precision: the lower bound is not checked.
from_precision_no_lower_bound(precision) ==
    IF ~(precision <= 16) THEN [state |-> "ValueError"]
    ELSE [state |-> "ok", precision |-> precision,
          num_registers |-> Pow2(precision)]

\* EstimatorParams.from_precision(precision)
from_precision(precision) ==
    IF ~(4 <= precision /\ precision <= 16) THEN [state |-> "ValueError"]
    ELSE [state |-> "ok", precision |-> precision,
          num_registers |-> Pow2(precision)]

\* alpha as the fraction <<numerator, denominator>>:
\* 0.673, 0.697, 0.709, else 0.7213 / (1 + 1.079 / m)
get_alpha(m) ==
    CASE m = 16 -> <<673, 1000>>
      [] m = 32 -> <<697, 1000>>
      [] m = 64 -> <<709, 1000>>
      [] OTHER  -> <<7213 * m, 10 * (1000 * m + 1079)>>

\* int(self.params.num_registers * truncate_percentage), truncate_percentage = 0.7
TruncatePercentage == 70
truncate_threshold_of(m) == (m * TruncatePercentage) \div 100

\* __init__ of LogLog, SuperLogLog (truncate_percentage = 0.7) and HyperLogLog
BaseLogEstimator_init(k, precision) ==
    /\ est_state = "none"
    /\ LET r == from_precision(precision) IN
        /\ est_state' = r.state
        /\ IF r.state = "ok"
           THEN /\ est_params' = [precision |-> r.precision,
                                  num_registers |-> r.num_registers]
                /\ registers' = [i \in 0..(r.num_registers - 1) |-> 0]
                /\ alpha' = get_alpha(r.num_registers)
                /\ truncate_threshold' =
                       IF k = "SuperLogLog"
                       THEN truncate_threshold_of(r.num_registers) ELSE 0
           ELSE UNCHANGED <<est_params, registers, alpha, truncate_threshold>>
    /\ kind' = k
    /\ est_args' = precision
    /\ est_ret' = [op |-> "init", hash_val |-> <<0, 0>>, idx |-> 0, zeros |-> 0,
                   result |-> 0]
    /\ UNCHANGED not_est_vars

\* hash_value & (self.params.num_registers - 1)
get_register_index(hash_value) == hash_value[2] % est_params.num_registers

\* value = hash_value >> self.params.precision
shifted(hash_value) ==
    hash_value[1] * Pow2(16 - est_params.precision)
        + hash_value[2] \div Pow2(est_params.precision)

\* Mutant of get_leading_zeros: the hash is not shifted and there is no cap,
\* (hash_value | 1).bit_length() - 1.
get_leading_zeros_unshifted(hash_value) ==
    IF hash_value[1] > 0 THEN 15 + bit_length(hash_value[1])
    ELSE bit_length(Or1(hash_value[2])) - 1

\* min(32 - self.params.precision, (value | 1).bit_length() - 1)
get_leading_zeros(hash_value) ==
    Min(32 - est_params.precision, bit_length(Or1(shifted(hash_value))) - 1)

\* LogLog.add(item), hash_val = self._hash(item)
LogLog_add(hash_val) ==
    /\ est_state = "ok"
    /\ kind = "LogLog"
    /\ LET idx == get_register_index(hash_val)
           zeros == get_leading_zeros(hash_val)
       IN
        /\ registers' = [registers EXCEPT ![idx] = Max(registers[idx], zeros)]
        /\ est_ret' = [op |-> "add", hash_val |-> hash_val, idx |-> idx,
                       zeros |-> zeros, result |-> 0]
    /\ UNCHANGED <<est_state, kind, est_params, alpha, truncate_threshold,
                   est_args, not_est_vars>>

\* SuperLogLog.add(item), hash_val = self._hash(item)
SuperLogLog_add(hash_val) ==
    /\ est_state = "ok"
    /\ kind = "SuperLogLog"
    /\ LET idx == get_register_index(hash_val)
           zeros == get_leading_zeros(hash_val)
       IN
        /\ registers' = [registers EXCEPT ![idx] = Max(registers[idx], zeros)]
        /\ est_ret' = [op |-> "add", hash_val |-> hash_val, idx |-> idx,
                       zeros |-> zeros, result |-> 0]
    /\ UNCHANGED <<est_state, kind, est_params, alpha, truncate_threshold,
                   est_args, not_est_vars>>

\* Mutant of HyperLogLog_add: the candidate overwrites the register.
HyperLogLog_add_overwrite(hash_val) ==
    /\ est_state = "ok"
    /\ kind = "HyperLogLog"
    /\ LET idx == get_register_index(hash_val)
           zeros == get_leading_zeros(hash_val)
       IN
        /\ registers' = [registers EXCEPT ![idx] = zeros]
        /\ est_ret' = [op |-> "add", hash_val |-> hash_val, idx |-> idx,
                       zeros |-> zeros, result |-> 0]
    /\ UNCHANGED <<est_state, kind, est_params, alpha, truncate_threshold,
                   est_args, not_est_vars>>

\* HyperLogLog.add(item), hash_val = self._hash(item)
HyperLogLog_add(hash_val) ==
    /\ est_state = "ok"
    /\ kind = "HyperLogLog"
    /\ LET idx == get_register_index(hash_val)
           zeros == get_leading_zeros(hash_val)
       IN
        /\ registers' = [registers EXCEPT ![idx] = Max(registers[idx], zeros)]
        /\ est_ret' = [op |-> "add", hash_val |-> hash_val, idx |-> idx,
                       zeros |-> zeros, result |-> 0]
    /\ UNCHANGED <<est_state, kind, est_params, alpha, truncate_threshold,
                   est_args, not_est_vars>>

---------------------------------------------------------------------------
\* Non-negative integers of any size, for the estimates' arithmetic: a
\* sequence of digits in base 10^4, least significant first, no leading
\* zero digit; 0 is <<>>.

Base == 10000

RECURSIVE BigFromInt(_)
BigFromInt(x) == IF x = 0 THEN <<>> ELSE <<x % Base>> \o BigFromInt(x \div Base)

RECURSIVE BigAddC(_, _, _)
BigAddC(a, b, carry) ==
    IF a = <<>> /\ b = <<>> THEN BigFromInt(carry)
    ELSE LET x == IF a = <<>> THEN 0 ELSE Head(a)
             y == IF b = <<>> THEN 0 ELSE Head(b)
             t == x + y + carry
         IN  <<t % Base>> \o BigAddC(IF a = <<>> THEN <<>> ELSE Tail(a),
                                     IF b = <<>> THEN <<>> ELSE Tail(b),
                                     t \div Base)

BigAdd(a, b) == BigAddC(a, b, 0)

RECURSIVE BigMulC(_, _, _)
BigMulC(a, d, carry) ==
    IF a = <<>> THEN BigFromInt(carry)
    ELSE LET t == Head(a) * d + carry
         IN  <<t % Base>> \o BigMulC(Tail(a), d, t \div Base)

\* a * d for an integer 0 <= d < 2^17
BigMulSmall(a, d) == IF d = 0 THEN <<>> ELSE BigMulC(a, d, 0)

\* a * Base
BigShiftLeft(a) == IF a = <<>> THEN <<>> ELSE <<0>> \o a

RECURSIVE BigMul(_, _)
BigMul(a, b) ==
    IF a = <<>> \/ b = <<>> THEN <<>>
    ELSE BigAdd(BigMulSmall(a, Head(b)), BigShiftLeft(BigMul(a, Tail(b))))

RECURSIVE BigLeqAt(_, _, _)
BigLeqAt(a, b, i) ==
    IF i = 0 THEN TRUE
    ELSE IF a[i] # b[i] THEN a[i] < b[i]
    ELSE BigLeqAt(a, b, i - 1)

BigLeq(a, b) ==
    IF Len(a) # Len(b) THEN Len(a) < Len(b) ELSE BigLeqAt(a, b, Len(a))

\* the largest q in lo..hi with q * d <= n
RECURSIVE BigQuotient(_, _, _, _)
BigQuotient(n, d, lo, hi) ==
    IF lo = hi THEN lo
    ELSE LET mid == lo + (hi - lo + 1) \div 2
         IN  IF BigLeq(BigMul(BigFromInt(mid), d), n)
             THEN BigQuotient(n, d, mid, hi)
             ELSE BigQuotient(n, d, lo, mid - 1)

\* int(n / d) for a quotient below 2^31
IntOfRatio(n, d) == BigQuotient(n, d, 0, 2147483646)

RECURSIVE BigStrip(_)
BigStrip(a) ==
    IF a = <<>> THEN <<>>
    ELSE IF a[Len(a)] = 0 THEN BigStrip(SubSeq(a, 1, Len(a) - 1))
    ELSE a

\* a - b for a >= b, digit by digit
RECURSIVE BigSubB(_, _, _)
BigSubB(a, b, borrow) ==
    IF a = <<>> THEN <<>>
    ELSE LET y == (IF b = <<>> THEN 0 ELSE Head(b)) + borrow
             t == Head(a) - y
         IN  <<IF t < 0 THEN t + Base ELSE t>>
                 \o BigSubB(Tail(a), IF b = <<>> THEN <<>> ELSE Tail(b),
                            IF t < 0 THEN 1 ELSE 0)

BigSub(a, b) == BigStrip(BigSubB(a, b, 0))

\* one step of long division: the digit of the quotient for cur = r * Base + h,
\* where r < d is the remainder left by the higher digits and highq their quotient
BigDivDigit(cur, d, digit, highq) ==
    [q |-> BigStrip(<<digit>> \o highq),
     r |-> BigSub(cur, BigMulSmall(d, digit))]

BigDivCur(cur, d, highq) ==
    BigDivDigit(cur, d, BigQuotient(cur, d, 0, Base - 1), highq)

BigDivStep(high, h, d) ==
    IF high.r = <<>> /\ h = 0 THEN [q |-> BigShiftLeft(high.q), r |-> <<>>]
    ELSE BigDivCur(<<h>> \o high.r, d, high.q)

\* long division: [q |-> n div d, r |-> n mod d], d # 0
RECURSIVE BigDivMod(_, _)
BigDivMod(n, d) ==
    IF n = <<>> THEN [q |-> <<>>, r |-> <<>>]
    ELSE BigDivStep(BigDivMod(Tail(n), d), Head(n), d)

BigDiv(n, d) == BigDivMod(n, d).q

\* a div Base^k
BigShiftRight(a, k) == IF Len(a) <= k THEN <<>> ELSE SubSeq(a, k + 1, Len(a))

RECURSIVE BigToInt(_)
BigToInt(a) == IF a = <<>> THEN 0 ELSE Head(a) + Base * BigToInt(Tail(a))

---------------------------------------------------------------------------
\* estimate() of LogLog, SuperLogLog and HyperLogLog

\* the number of entries of an array equal to v
CountOf(values, v) == Cardinality({i \in DOMAIN values : values[i] = v})

\* np.sum(2.0 ** -values) * 2^28: register values are at most 32 - 4 = 28
RECURSIVE PowSumFrom(_, _)
PowSumFrom(values, v) ==
    IF v > 28 THEN <<>>
    ELSE BigAdd(BigMulSmall(BigFromInt(Pow2(28 - v)), CountOf(values, v)),
                PowSumFrom(values, v + 1))

\* self.alpha * self.params.num_registers * (1 / np.mean(2.0 ** -values))
\* as the fraction num / den
raw_estimate(values) ==
    LET n == Cardinality(DOMAIN values)
    IN  [num |-> BigMul(BigMul(BigFromInt(alpha[1]),
                               BigMul(BigFromInt(est_params.num_registers),
                                      BigFromInt(n))),
                        BigFromInt(Pow2(28))),
         den |-> BigMul(BigFromInt(alpha[2]), PowSumFrom(values, 0))]

\* LogLog.estimate()
LogLog_estimate_value ==
    LET raw == raw_estimate(registers) IN IntOfRatio(raw.num, raw.den)

\* np.sort(values): entry k is the least v with more than k entries <= v
np_sort(values) ==
    [k \in DOMAIN values |->
        CHOOSE v \in 0..28 :
            /\ Cardinality({i \in DOMAIN values : values[i] <= v}) > k
            /\ Cardinality({i \in DOMAIN values : values[i] < v}) <= k]

\* Mutant of truncated_registers: the slice keeps the largest values,
\* sorted_registers[-self.truncate_threshold:].
truncated_registers_largest ==
    LET sorted_registers == np_sort(registers)
        m == est_params.num_registers
    IN  [k \in 0..(Min(truncate_threshold, m) - 1) |->
            sorted_registers[m - Min(truncate_threshold, m) + k]]

\* sorted_registers[:self.truncate_threshold]
truncated_registers ==
    LET sorted_registers == np_sort(registers)
    IN  [k \in 0..(Min(truncate_threshold, est_params.num_registers) - 1) |->
            sorted_registers[k]]

\* SuperLogLog.estimate()
SuperLogLog_estimate_value ==
    LET raw == raw_estimate(truncated_registers) IN IntOfRatio(raw.num, raw.den)

\* 2 ** 32
TwoPow32 == BigMul(BigFromInt(65536), BigFromInt(65536))

\* fixed point with 24 decimal places: a value v is held as floor(v * 10^24)
FixDigits == 6
FixOne == <<0, 0, 0, 0, 0, 0, 1>>

\* sum of y^k / k over the odd k >= kk, where pow = y^kk and y2 = y^2,
\* in fixed point: atanh(y) for kk = 1
RECURSIVE AtanhSeries(_, _, _)
AtanhSeries(y2, pow, kk) ==
    IF pow = <<>> THEN <<>>
    ELSE BigAdd(BigDiv(pow, BigFromInt(kk)),
                AtanhSeries(y2, BigShiftRight(BigMul(pow, y2), FixDigits), kk + 2))

\* -math.log(1 - x) = 2 * atanh(y) for y = x / (2 - x), in fixed point
NegLog1m(y) ==
    BigMulSmall(AtanhSeries(BigShiftRight(BigMul(y, y), FixDigits), y, 1), 2)

\* int(-2**32 * math.log(1 - estimate / 2**32)), estimate = num / den,
\* for a result below 2^31
large_range_of(n, d) ==
    BigToInt(BigShiftRight(
        BigMul(NegLog1m(BigDiv(BigMul(n, FixOne), BigSub(BigMulSmall(d, 2), n))),
               TwoPow32),
        FixDigits))

large_range(num, den) == large_range_of(num, BigMul(den, TwoPow32))

\* int(m * math.log(m / num_zeros)) for num_zeros = 1..m, m = 16, 32, 128
LinearCounting16 ==
    << 44, 33, 26, 22, 18, 15, 13, 11, 9, 7, 5, 4, 3, 2, 1, 0 >>
LinearCounting32 ==
    << 110, 88, 75, 66, 59, 53, 48, 44, 40, 37, 34, 31, 28, 26, 24, 22,
       20, 18, 16, 15, 13, 11, 10, 9, 7, 6, 5, 4, 3, 2, 1, 0 >>
LinearCounting128 ==
    << 621, 532, 480, 443, 415, 391, 371, 354, 339, 326, 314, 302, 292,
       283, 274, 266, 258, 251, 244, 237, 231, 225, 219, 214, 209, 204,
       199, 194, 190, 185, 181, 177, 173, 169, 165, 162, 158, 155, 152,
       148, 145, 142, 139, 136, 133, 130, 128, 125, 122, 120, 117, 115,
       112, 110, 108, 105, 103, 101, 99, 96, 94, 92, 90, 88, 86, 84, 82,
       80, 79, 77, 75, 73, 71, 70, 68, 66, 65, 63, 61, 60, 58, 56, 55,
       53, 52, 50, 49, 47, 46, 45, 43, 42, 40, 39, 38, 36, 35, 34, 32,
       31, 30, 29, 27, 26, 25, 24, 22, 21, 20, 19, 18, 17, 15, 14, 13,
       12, 11, 10, 9, 8, 7, 6, 5, 4, 3, 2, 1, 0 >>

\* int(m * math.log(m / num_zeros)) by the series, log(m / z) being
\* -log(1 - x) for x = (m - z) / m, y = (m - z) / (m + z): for num_zeros
\* near m, where the series is short
linear_counting_series(m, num_zeros) ==
    BigToInt(BigShiftRight(
        BigMul(NegLog1m(BigDiv(BigMul(BigFromInt(m - num_zeros), FixOne),
                               BigFromInt(m + num_zeros))),
               BigFromInt(m)),
        FixDigits))

\* int(self.params.num_registers * math.log(self.params.num_registers / num_zeros))
linear_counting(m, num_zeros) ==
    CASE m = 16  -> LinearCounting16[num_zeros]
      [] m = 32  -> LinearCounting32[num_zeros]
      [] m = 128 -> LinearCounting128[num_zeros]
      [] OTHER   -> linear_counting_series(m, num_zeros)

\* Mutant of HyperLogLog_branch: the large range starts at 2**32.
HyperLogLog_branch_late_large_range ==
    LET raw == raw_estimate(registers)
        m == est_params.num_registers
    IN  IF BigLeq(BigMulSmall(raw.num, 2), BigMul(raw.den, BigFromInt(5 * m)))
        THEN IF CountOf(registers, 0) > 0 THEN "linear_counting" ELSE "raw"
        ELSE IF ~BigLeq(raw.num, BigMul(raw.den, TwoPow32))
             THEN "large_range" ELSE "raw"

\* Mutant of HyperLogLog_branch: no small-range correction.
HyperLogLog_branch_no_small_range ==
    LET raw == raw_estimate(registers)
    IN  IF ~BigLeq(BigMulSmall(raw.num, 30), BigMul(raw.den, TwoPow32))
        THEN "large_range" ELSE "raw"

\* HyperLogLog.estimate(): the correction the two tests select
HyperLogLog_branch ==
    LET raw == raw_estimate(registers)
        m == est_params.num_registers
    IN  IF BigLeq(BigMulSmall(raw.num, 2), BigMul(raw.den, BigFromInt(5 * m)))
        THEN IF CountOf(registers, 0) > 0 THEN "linear_counting" ELSE "raw"
        ELSE IF ~BigLeq(BigMulSmall(raw.num, 30), BigMul(raw.den, TwoPow32))
             THEN "large_range" ELSE "raw"

\* HyperLogLog.estimate()
HyperLogLog_estimate_value ==
    LET raw == raw_estimate(registers)
        branch == HyperLogLog_branch
    IN  CASE branch = "linear_counting" ->
                linear_counting(est_params.num_registers, CountOf(registers, 0))
          [] branch = "large_range" -> large_range(raw.num, raw.den)
          [] branch = "raw" -> IntOfRatio(raw.num, raw.den)

EstimateRet(v) ==
    [op |-> "estimate", hash_val |-> <<0, 0>>, idx |-> 0, zeros |-> 0, result |-> v]

LogLog_estimate ==
    /\ est_state = "ok"
    /\ kind = "LogLog"
    /\ est_ret' = EstimateRet(LogLog_estimate_value)
    /\ UNCHANGED <<est_state, kind, est_params, registers, alpha,
                   truncate_threshold, est_args, not_est_vars>>

\* Mutant of SuperLogLog_estimate: self.registers.sort() sorts in place.
SuperLogLog_estimate_sorts_in_place ==
    /\ est_state = "ok"
    /\ kind = "SuperLogLog"
    /\ est_ret' = EstimateRet(SuperLogLog_estimate_value)
    /\ registers' = np_sort(registers)
    /\ UNCHANGED <<est_state, kind, est_params, alpha,
                   truncate_threshold, est_args, not_est_vars>>

SuperLogLog_estimate ==
    /\ est_state = "ok"
    /\ kind = "SuperLogLog"
    /\ est_ret' = EstimateRet(SuperLogLog_estimate_value)
    /\ UNCHANGED <<est_state, kind, est_params, registers, alpha,
                   truncate_threshold, est_args, not_est_vars>>

HyperLogLog_estimate ==
    /\ est_state = "ok"
    /\ kind = "HyperLogLog"
    /\ est_ret' = EstimateRet(HyperLogLog_estimate_value)
    /\ UNCHANGED <<est_state, kind, est_params, registers, alpha,
                   truncate_threshold, est_args, not_est_vars>>

EstInit ==
    /\ est_state = "none"
    /\ kind = "LogLog"
    /\ est_params = [precision |-> 0, num_registers |-> 0]
    /\ registers = <<>>
    /\ alpha = <<0, 1>>
    /\ truncate_threshold = 0
    /\ est_args = 0
    /\ est_ret = [op |-> "none", hash_val |-> <<0, 0>>, idx |-> 0, zeros |-> 0,
                  result |-> 0]

---------------------------------------------------------------------------
\* MinHash.  A float result is the fraction <<numerator, denominator>>; every
\* call returns [err, value], err naming the exception raised or "None".

MaxValue == 2147483647          \* max_value = 2**31 - 1

\* num_hashes offered to __init__
NumHashesInputs == {-1, 0, 1, 2}
\* values random.randint(1, max_value) and random.randint(0, max_value) draw
CoefAInputs == {1, 2}
CoefBInputs == {0, 3}
\* values of hash(x)
PyHashVals == {-3, 0, 5}
\* sets offered to compute_signature and compute_jaccard_similarity
SetInputs == SUBSET Items
\* lists offered to estimate_similarity besides the signatures already returned
SignatureInputs == {<<>>, <<7>>, <<7, 8>>, <<7, 9>>}

\* _generate_hash_functions(): the i-th lambda captures a, b and p = max_value
generate_hash_functions(n, coefs) ==
    [i \in 1..n |-> [a |-> coefs[i][1], b |-> coefs[i][2], p |-> MaxValue]]

\* MinHash(num_hashes): range(num_hashes) is empty for num_hashes <= 0
MinHash_init(n, coefs) ==
    /\ mh_state = "none"
    /\ mh_state' = "ok"
    /\ num_hashes' = n
    /\ hash_functions' = generate_hash_functions(Max(n, 0), coefs)
    /\ mh_ret' = [op |-> "init", args |-> <<n>>, repeat |-> FALSE,
                  result |-> [err |-> "None", value |-> <<>>]]
    /\ UNCHANGED <<pyhash, mh_produced, mh_first, not_mh_vars>>

\* lambda x, a=a, b=b, p=max_value: (a * hash(x) + b) % p
hash_func(f, x) == PyMod(f.a * pyhash[x] + f.b, f.p)

\* min(...) of a non-empty collection
MinOf(S) == CHOOSE v \in S : \A w \in S : v <= w

\* compute_signature(input_set): min() of an empty generator raises ValueError
compute_signature(fs, input_set) ==
    IF fs # <<>> /\ input_set = {}
    THEN [err |-> "ValueError", value |-> <<>>]
    ELSE [err |-> "None",
          value |-> [i \in 1..Len(fs) |->
                        MinOf({hash_func(fs[i], x) : x \in input_set})]]

\* Mutant of MinHash_compute_signature: the coefficients are drawn again at
\* each call.
MinHash_compute_signature_redrawn(input_set) ==
    /\ mh_state = "ok"
    /\ hash_functions' = [i \in DOMAIN hash_functions |->
                             [hash_functions[i] EXCEPT !.b = 3 - @]]
    /\ LET r == compute_signature(hash_functions', input_set) IN
        /\ mh_ret' = [op |-> "compute_signature", args |-> <<input_set>>,
                      repeat |-> mh_first[input_set] # {}, result |-> r]
        /\ mh_produced' = IF r.err = "None" THEN mh_produced \cup {r.value}
                          ELSE mh_produced
        /\ mh_first' = IF r.err = "None" /\ mh_first[input_set] = {}
                       THEN [mh_first EXCEPT ![input_set] = {r.value}]
                       ELSE mh_first
    /\ UNCHANGED <<pyhash, mh_state, num_hashes, not_mh_vars>>

MinHash_compute_signature(input_set) ==
    /\ mh_state = "ok"
    /\ LET r == compute_signature(hash_functions, input_set) IN
        /\ mh_ret' = [op |-> "compute_signature", args |-> <<input_set>>,
                      repeat |-> mh_first[input_set] # {}, result |-> r]
        /\ mh_produced' = IF r.err = "None" THEN mh_produced \cup {r.value}
                          ELSE mh_produced
        /\ mh_first' = IF r.err = "None" /\ mh_first[input_set] = {}
                       THEN [mh_first EXCEPT ![input_set] = {r.value}]
                       ELSE mh_first
    /\ UNCHANGED <<pyhash, mh_state, num_hashes, hash_functions, not_mh_vars>>

\* Mutant of compute_jaccard_similarity: union = len(set_a) + len(set_b).
compute_jaccard_similarity_sum_of_sizes(set_a, set_b) ==
    LET intersection == Cardinality(set_a \cap set_b)
        union == Cardinality(set_a) + Cardinality(set_b)
    IN  [err |-> "None",
         value |-> IF union # 0 THEN <<intersection, union>> ELSE <<0, 1>>]

\* intersection / union if union != 0 else 0.0
compute_jaccard_similarity(set_a, set_b) ==
    LET intersection == Cardinality(set_a \cap set_b)
        union == Cardinality(set_a \cup set_b)
    IN  [err |-> "None",
         value |-> IF union # 0 THEN <<intersection, union>> ELSE <<0, 1>>]

\* a static method: callable with or without an instance
MinHash_compute_jaccard_similarity(set_a, set_b) ==
    /\ mh_ret' = [op |-> "compute_jaccard_similarity", args |-> <<set_a, set_b>>,
                  repeat |-> FALSE,
                  result |-> compute_jaccard_similarity(set_a, set_b)]
    /\ UNCHANGED <<pyhash, mh_state, num_hashes, hash_functions, mh_produced,
                   mh_first, not_mh_vars>>

\* sum(1 for a, b in zip(signature_a, signature_b) if a == b): zip stops at
\* the end of the shorter list
RECURSIVE ZipMatches(_, _, _)
ZipMatches(signature_a, signature_b, i) ==
    IF i > Len(signature_a) \/ i > Len(signature_b) THEN 0
    ELSE (IF signature_a[i] = signature_b[i] THEN 1 ELSE 0)
             + ZipMatches(signature_a, signature_b, i + 1)

\* Mutant of estimate_similarity: only the first position is compared.
estimate_similarity_first_only(signature_a, signature_b) ==
    IF Len(signature_a) = 0 THEN [err |-> "ZeroDivisionError", value |-> <<>>]
    ELSE [err |-> "None",
          value |-> <<IF Len(signature_b) > 0 /\ signature_a[1] = signature_b[1]
                      THEN 1 ELSE 0,
                      Len(signature_a)>>]

\* matches / len(signature_a)
estimate_similarity(signature_a, signature_b) ==
    IF Len(signature_a) = 0 THEN [err |-> "ZeroDivisionError", value |-> <<>>]
    ELSE [err |-> "None",
          value |-> <<ZipMatches(signature_a, signature_b, 1), Len(signature_a)>>]

\* a static method: any two lists, among them the signatures returned so far
MinHash_estimate_similarity(signature_a, signature_b) ==
    /\ mh_ret' = [op |-> "estimate_similarity",
                  args |-> <<signature_a, signature_b>>, repeat |-> FALSE,
                  result |-> estimate_similarity(signature_a, signature_b)]
    /\ UNCHANGED <<pyhash, mh_state, num_hashes, hash_functions, mh_produced,
                   mh_first, not_mh_vars>>

MHInit ==
    /\ mh_state = "none"
    /\ num_hashes = 0
    /\ hash_functions = <<>>
    /\ mh_ret = [op |-> "none", args |-> <<>>, repeat |-> FALSE,
                 result |-> [err |-> "None", value |-> <<>>]]
    /\ mh_produced = {}
    /\ mh_first = [input_set \in SetInputs |-> {}]

\* no shard and no CardinalityProcessor exists
ShardInit ==
    /\ bf_shards = <<>>
    /\ cms_shards = <<>>
    /\ est_shards = <<>>

---------------------------------------------------------------------------
\* CardinalityProcessor: one LogLog, one SuperLogLog and one HyperLogLog of
\* the same precision, each item added to the three

\* Mutant of LogLog_add_registers: the candidate overwrites the register.
LogLog_add_registers_overwrite(regs, hash_val) ==
    LET idx == get_register_index(hash_val)
        zeros == get_leading_zeros(hash_val)
    IN  [regs EXCEPT ![idx] = zeros]

\* LogLog.add on the register array regs
LogLog_add_registers(regs, hash_val) ==
    LET idx == get_register_index(hash_val)
        zeros == get_leading_zeros(hash_val)
    IN  [regs EXCEPT ![idx] = Max(regs[idx], zeros)]

\* Mutant of SuperLogLog_add_registers: the candidate overwrites the register.
SuperLogLog_add_registers_overwrite(regs, hash_val) ==
    LET idx == get_register_index(hash_val)
        zeros == get_leading_zeros(hash_val)
    IN  [regs EXCEPT ![idx] = zeros]

\* SuperLogLog.add on the register array regs
SuperLogLog_add_registers(regs, hash_val) ==
    LET idx == get_register_index(hash_val)
        zeros == get_leading_zeros(hash_val)
    IN  [regs EXCEPT ![idx] = Max(regs[idx], zeros)]

\* HyperLogLog.add on the register array regs
HyperLogLog_add_registers(regs, hash_val) ==
    LET idx == get_register_index(hash_val)
        zeros == get_leading_zeros(hash_val)
    IN  [regs EXCEPT ![idx] = Max(regs[idx], zeros)]

\* CardinalityProcessor(precision)
CardinalityProcessor_init(precision) ==
    /\ proc_state = "none"
    /\ LET r == from_precision(precision) IN
        /\ proc_state' = r.state
        /\ IF r.state = "ok"
           THEN /\ est_params' = [precision |-> r.precision,
                                  num_registers |-> r.num_registers]
                /\ proc_registers' =
                       [k \in Kinds |-> [i \in 0..(r.num_registers - 1) |-> 0]]
           ELSE UNCHANGED <<est_params, proc_registers>>
    /\ UNCHANGED not_proc_vars

\* process_item(item), hash_val = self._hash(item) in each of the three add
process_item(hash_val) ==
    /\ proc_state = "ok"
    /\ proc_registers' =
           [k \in Kinds |->
               CASE k = "LogLog" ->
                        LogLog_add_registers(proc_registers[k], hash_val)
                 [] k = "SuperLogLog" ->
                        SuperLogLog_add_registers(proc_registers[k], hash_val)
                 [] k = "HyperLogLog" ->
                        HyperLogLog_add_registers(proc_registers[k], hash_val)]
    /\ UNCHANGED <<proc_state, est_params, not_proc_vars>>

ProcInit ==
    /\ proc_state = "none"
    /\ proc_registers = <<>>

---------------------------------------------------------------------------
\* Sharding: an instance is fed a stream, and each item of the stream is
\* also fed to one of two more instances built with the same parameters
\* (shard 1 and shard 2), of which the arrays are kept

Shards == 1..2
\* hash values of the items fed to a sharded estimator
ShardHashInputs ==
    { <<0, 33>>, <<1, 1>>, <<0, 163>>, <<32768, 4>>, <<65535, 65535>> }
\* counts fed to a sharded CountMinSketch: 1, 2 and 2 ** 62
ShardCountInputs == {Small(1), Small(2), Big}

\* instance.add(item) and shard.add(item) on BloomFilters
sharded_BloomFilter_add(item, shard) ==
    /\ bf_state = "ok"
    /\ bf_shards # <<>>
    /\ elements_count < MaxElements
    /\ LET r == SetBits(bit_array, get_hash_values(item), 1) IN
        /\ bit_array' = r.arr
        /\ elements_count' = IF r.err = "None" THEN elements_count + 1
                             ELSE elements_count
        /\ bf_ret' = [op |-> "add", item |-> item, result |-> r.err]
        /\ bf_added' = IF r.err = "None" THEN bf_added \cup {item} ELSE bf_added
    /\ bf_passed' = bf_passed \cup {item}
    /\ bf_shards' = [bf_shards EXCEPT
                        ![shard] = SetBits(@, get_hash_values(item), 1).arr]
    /\ UNCHANGED <<mmh3, bf_state, size, hash_count, bf_args, cms_vars,
                   est_vars, mh_vars, cms_shards, est_shards, proc_vars>>

\* instance.add(item, count) and shard.add(item, count) on CountMinSketches
sharded_CountMinSketch_add(item, count, shard) ==
    /\ cms_state = "ok"
    /\ cms_shards # <<>>
    /\ total_items[1] + count[1] <= MaxBigAdds
    /\ total_items[2] + count[2] <= MaxSmallTotal
    /\ add_validate(count) = "None"
    /\ sketch' = add_rows(sketch, get_hash_indices(item), count)
    /\ total_items' = IntAdd(total_items, count)
    /\ true_count' = [true_count EXCEPT ![item] = IntAdd(@, count)]
    /\ cms_ret' = [op |-> "add", item |-> item, args |-> count, result |-> "None"]
    /\ cms_shards' =
           [cms_shards EXCEPT
               ![shard] = [sketch |-> add_rows(@.sketch, get_hash_indices(item),
                                               count),
                           total_items |-> IntAdd(@.total_items, count)]]
    /\ UNCHANGED <<mmh3, cms_state, params, width, depth, bf_vars, est_vars,
                   mh_vars, bf_shards, est_shards, proc_vars>>

\* the add of the estimator's class on the register array regs
add_registers(regs, hash_val) ==
    CASE kind = "LogLog" -> LogLog_add_registers(regs, hash_val)
      [] kind = "SuperLogLog" -> SuperLogLog_add_registers(regs, hash_val)
      [] kind = "HyperLogLog" -> HyperLogLog_add_registers(regs, hash_val)

\* instance.add(item) and shard.add(item) on estimators of one class,
\* hash_val = self._hash(item)
sharded_estimator_add(hash_val, shard) ==
    /\ est_state = "ok"
    /\ est_shards # <<>>
    /\ registers' = add_registers(registers, hash_val)
    /\ est_ret' = [op |-> "add", hash_val |-> hash_val,
                   idx |-> get_register_index(hash_val),
                   zeros |-> get_leading_zeros(hash_val), result |-> 0]
    /\ est_shards' = [est_shards EXCEPT ![shard] = add_registers(@, hash_val)]
    /\ UNCHANGED <<est_state, kind, est_params, alpha, truncate_threshold,
                   est_args, mmh3, bf_vars, cms_vars, mh_vars, bf_shards,
                   cms_shards, proc_vars>>

\* BloomFilter(2, 0.5) three times: the instance and its two shards
ShardedBloomFilterInit ==
    LET r == BloomFilter_new(2, 50) IN
    /\ mmh3 \in [Items \X Seeds -> HashVals]
    /\ bf_state = r.state
    /\ size = r.size
    /\ hash_count = r.hash_count
    /\ bit_array = ZeroList(r.size)
    /\ elements_count = 0
    /\ bf_args = [expected_elements |-> 2, false_positive_rate |-> 50]
    /\ bf_ret = [op |-> "init", item |-> "", result |-> "None"]
    /\ bf_passed = {}
    /\ bf_added = {}
    /\ bf_shards = [s \in Shards |-> ZeroList(r.size)]
    /\ CMSInit
    /\ EstInit
    /\ cms_shards = <<>>
    /\ est_shards = <<>>

\* CMSDataProcessor(0.5, 0.2).cms three times
ShardedCountMinSketchInit ==
    LET r == from_error_rate(50, 20) IN
    /\ mmh3 \in [Items \X Seeds -> HashVals]
    /\ cms_state = r.state
    /\ params = r.params
    /\ width = r.params.width
    /\ depth = r.params.depth
    /\ sketch = np_zeros(r.params.depth, r.params.width)
    /\ total_items = Small(0)
    /\ cms_ret = [op |-> "from_error_rate", item |-> "", args |-> <<50, 20>>,
                  result |-> "None"]
    /\ true_count = [x \in Items |-> Small(0)]
    /\ cms_shards = [s \in Shards |->
                        [sketch |-> np_zeros(r.params.depth, r.params.width),
                         total_items |-> Small(0)]]
    /\ BFInit
    /\ EstInit
    /\ bf_shards = <<>>
    /\ est_shards = <<>>

\* LogLog(4), SuperLogLog(4) or HyperLogLog(4) three times
ShardedEstimatorInit ==
    LET r == from_precision(4) IN
    /\ mmh3 = [x \in Items \X Seeds |-> 0]
    /\ est_state = r.state
    /\ kind \in Kinds
    /\ est_params = [precision |-> r.precision, num_registers |-> r.num_registers]
    /\ registers = [i \in 0..(r.num_registers - 1) |-> 0]
    /\ alpha = get_alpha(r.num_registers)
    /\ truncate_threshold = IF kind = "SuperLogLog"
                            THEN truncate_threshold_of(r.num_registers) ELSE 0
    /\ est_args = 4
    /\ est_ret = [op |-> "init", hash_val |-> <<0, 0>>, idx |-> 0, zeros |-> 0,
                  result |-> 0]
    /\ est_shards = [s \in Shards |-> [i \in 0..(r.num_registers - 1) |-> 0]]
    /\ BFInit
    /\ CMSInit
    /\ bf_shards = <<>>
    /\ cms_shards = <<>>

InitBF ==
    /\ mmh3 \in [Items \X Seeds -> HashVals]
    /\ BFInit
    /\ CMSInit
    /\ EstInit
    /\ pyhash = [x \in Items |-> 0]
    /\ MHInit
    /\ ShardInit
    /\ ProcInit

NextBF ==
    \/ \E n \in ExpectedElementsInputs, p \in RateInputs : BloomFilter_init(n, p)
    \/ \E item \in Items : BloomFilter_add(item)
    \/ \E item \in Items : BloomFilter_check(item)

SpecBF == InitBF /\ [][NextBF]_vars

InitCMS ==
    /\ mmh3 \in [Items \X Seeds -> HashVals]
    /\ BFInit
    /\ CMSInit
    /\ EstInit
    /\ pyhash = [x \in Items |-> 0]
    /\ MHInit
    /\ ShardInit
    /\ ProcInit

NextCMS ==
    \/ \E e \in EpsilonInputs, d \in DeltaInputs : CMSDataProcessor_init(e, d)
    \/ \E p \in ParamsInputs : CountMinSketch_init(p)
    \/ \E item \in Items, count \in CountInputs : CountMinSketch_add(item, count)
    \/ \E item \in Items : CountMinSketch_get_count(item)

SpecCMS == InitCMS /\ [][NextCMS]_vars

\* the estimators do not use seeded hashes: mmh3 is left at one function
InitEst ==
    /\ mmh3 = [x \in Items \X Seeds |-> 0]
    /\ BFInit
    /\ CMSInit
    /\ EstInit
    /\ pyhash = [x \in Items |-> 0]
    /\ MHInit
    /\ ShardInit
    /\ ProcInit

NextEst ==
    \/ \E k \in Kinds, p \in PrecisionInputs : BaseLogEstimator_init(k, p)
    \/ \E h \in HashInputs : LogLog_add(h)
    \/ \E h \in HashInputs : SuperLogLog_add(h)
    \/ \E h \in HashInputs : HyperLogLog_add(h)
    \/ LogLog_estimate
    \/ SuperLogLog_estimate
    \/ HyperLogLog_estimate

SpecEst == InitEst /\ [][NextEst]_vars

\* MinHash uses the built-in hash, not mmh3
InitMH ==
    /\ mmh3 = [x \in Items \X Seeds |-> 0]
    /\ pyhash \in [Items -> PyHashVals]
    /\ BFInit
    /\ CMSInit
    /\ EstInit
    /\ MHInit
    /\ ShardInit
    /\ ProcInit

NextMH ==
    \/ \E n \in NumHashesInputs :
         \E coefs \in [1..Max(n, 0) -> CoefAInputs \X CoefBInputs] :
            MinHash_init(n, coefs)
    \/ \E input_set \in SetInputs : MinHash_compute_signature(input_set)
    \/ \E set_a, set_b \in SetInputs :
            MinHash_compute_jaccard_similarity(set_a, set_b)
    \/ \E signature_a, signature_b \in SignatureInputs \cup mh_produced :
            MinHash_estimate_similarity(signature_a, signature_b)

SpecMH == InitMH /\ [][NextMH]_vars

InitProc ==
    /\ mmh3 = [x \in Items \X Seeds |-> 0]
    /\ pyhash = [x \in Items |-> 0]
    /\ BFInit
    /\ CMSInit
    /\ EstInit
    /\ MHInit
    /\ ShardInit
    /\ ProcInit

NextProc ==
    \/ \E p \in PrecisionInputs : CardinalityProcessor_init(p)
    \/ \E h \in HashInputs : process_item(h)

SpecProc == InitProc /\ [][NextProc]_vars

\* streams of 16 hash values <<hi, lo>>, <<hi, lo + 1>>, ..: at precision 4
\* one for each register
StreamHashes(hi, lo) == [i \in 1..16 |-> <<hi, lo + i - 1>>]
\* the streams fed to a HyperLogLog(4): the first n items of a stream whose
\* items leave 26, 24, 5 or 1 in their registers
StreamInputs ==
    { SubSeq(stream, 1, n) :
        stream \in {StreamHashes(16384, 0), StreamHashes(4096, 0),
                    StreamHashes(0, 512), StreamHashes(0, 32)},
        n \in 0..16 }
\* precisions of the HyperLogLogs constructed
StreamPrecisions == 4..12
\* hash values of the items added after the stream
StreamHashInputs == { <<0, 0>>, <<65535, 65535>>, <<0, 163>> }

\* HyperLogLog.add of every item of a stream, in order
RECURSIVE add_stream(_, _)
add_stream(regs, stream) ==
    IF stream = <<>> THEN regs
    ELSE add_stream(HyperLogLog_add_registers(regs, Head(stream)), Tail(stream))

\* a HyperLogLog of a valid precision just constructed, or a HyperLogLog(4)
\* that was fed a stream
InitHLL ==
    /\ mmh3 = [x \in Items \X Seeds |-> 0]
    /\ BFInit
    /\ CMSInit
    /\ pyhash = [x \in Items |-> 0]
    /\ MHInit
    /\ ShardInit
    /\ ProcInit
    /\ est_state = "ok"
    /\ kind = "HyperLogLog"
    /\ truncate_threshold = 0
    /\ \E precision \in StreamPrecisions :
        \E stream \in IF precision = 4 THEN StreamInputs ELSE {<<>>} :
            LET r == from_precision(precision) IN
            /\ est_args = precision
            /\ est_params = [precision |-> r.precision,
                             num_registers |-> r.num_registers]
            /\ alpha = get_alpha(r.num_registers)
            /\ registers =
                   add_stream([i \in 0..(r.num_registers - 1) |-> 0], stream)
            /\ est_ret =
                   IF stream = <<>>
                   THEN [op |-> "init", hash_val |-> <<0, 0>>, idx |-> 0,
                         zeros |-> 0, result |-> 0]
                   ELSE [op |-> "add", hash_val |-> stream[Len(stream)],
                         idx |-> get_register_index(stream[Len(stream)]),
                         zeros |-> get_leading_zeros(stream[Len(stream)]),
                         result |-> 0]

NextHLL ==
    \/ \E h \in StreamHashInputs : HyperLogLog_add(h)
    \/ HyperLogLog_estimate

SpecHLL == InitHLL /\ [][NextHLL]_vars

\* one structure and its two shards, just constructed
InitMerge ==
    /\ pyhash = [x \in Items |-> 0]
    /\ MHInit
    /\ ProcInit
    /\ \/ ShardedBloomFilterInit
       \/ ShardedCountMinSketchInit
       \/ ShardedEstimatorInit

NextMerge ==
    \/ \E item \in Items, shard \in Shards : sharded_BloomFilter_add(item, shard)
    \/ \E item \in Items, count \in ShardCountInputs, shard \in Shards :
            sharded_CountMinSketch_add(item, count, shard)
    \/ \E h \in ShardHashInputs, shard \in Shards : sharded_estimator_add(h, shard)

SpecMerge == InitMerge /\ [][NextMerge]_vars

---------------------------------------------------------------------------
\* Claims: BloomFilter

C4_BitsOnlySet ==
    [][ /\ (bf_state = "none" /\ bf_state' = "ok") =>
              \A i \in DOMAIN bit_array' : bit_array'[i] = 0
        /\ bf_state = "ok" =>
              /\ DOMAIN bit_array' = DOMAIN bit_array
              /\ \A i \in DOMAIN bit_array :
                    bit_array[i] = 1 => bit_array'[i] = 1
              /\ bit_array' # bit_array => bf_ret'.op = "add"
      ]_vars

\* C4 witness: after three adds, the last of which found all its bits
\* already set, the array holds bits that are 1 and bits that are 0.
C4_Witness ==
    /\ bf_state = "ok"
    /\ elements_count = 3
    /\ bf_ret.op = "add"
    /\ \E i \in DOMAIN bit_array : bit_array[i] = 1
    /\ \E i \in DOMAIN bit_array : bit_array[i] = 0

\* C8 (the claim as stated): constructing a BloomFilter with
\* expected_elements <= 0 or false_positive_rate outside (0, 1) raises, so
\* no instance and no bit array exists.
C8_InitValidates ==
    (bf_state # "none" /\
       (\/ bf_args.expected_elements <= 0
        \/ bf_args.false_positive_rate <= 0
        \/ bf_args.false_positive_rate >= 100))
    => bf_state # "ok"

---------------------------------------------------------------------------
\* Claims: CountMinSketch

\* C2 (the claim as stated): for every item, the estimate get_count returns
\* is at least the sum of the counts added for that item.
C2_NeverUndercounts ==
    (cms_state = "ok" /\ depth > 0 /\ width > 0) =>
        \A x \in Items : IntLeq(true_count[x], get_count(x).estimated_count)

\* C5: add with count <= 0 raises ValueError and leaves the sketch matrix
\* and total_items as they were.
C5_AddRejectsNonPositive ==
    [][ (cms_ret'.op = "add" /\ IntLeq(cms_ret'.args, Small(0))) =>
            /\ cms_ret'.result = "ValueError"
            /\ sketch' = sketch
            /\ total_items' = total_items
      ]_vars

\* C5 witness: a non-empty sketch on which add(item, 0) or add(item, -1)
\* has just raised ValueError.
C5_Witness ==
    /\ cms_state = "ok"
    /\ IntLess(Small(0), total_items)
    /\ cms_ret.op = "add"
    /\ IntLeq(cms_ret.args, Small(0))
    /\ cms_ret.result = "ValueError"

\* C9 (the claim as stated): from_error_rate with epsilon or delta outside
\* (0, 1) raises and no matrix is allocated, and no CountMinSketch instance
\* has an epsilon or delta outside (0, 1).
C9_ParamsInRange ==
    /\ (cms_ret.op = "from_error_rate" /\
          ~(0 < cms_ret.args[1] /\ cms_ret.args[1] < 100 /\
            0 < cms_ret.args[2] /\ cms_ret.args[2] < 100))
       => (cms_state = "ValueError" /\ sketch = <<>>)
    /\ cms_state = "ok" =>
          /\ 0 < params.epsilon /\ params.epsilon < 100
          /\ 0 < params.delta /\ params.delta < 100

---------------------------------------------------------------------------
\* Claims: cardinality estimators

\* C3: for LogLog, SuperLogLog and HyperLogLog, no step of an estimator
\* lowers a register: for every index j, registers[j] after the step is at
\* least registers[j] before it.
C3_RegistersNeverDecrease ==
    [][ est_state = "ok" =>
            /\ DOMAIN registers' = DOMAIN registers
            /\ \A j \in DOMAIN registers : registers'[j] >= registers[j]
      ]_vars

\* C3 witness: an add has just offered a candidate below the value its
\* register already held, and the register kept the larger value.
C3_Witness ==
    /\ est_state = "ok"
    /\ est_ret.op = "add"
    /\ est_ret.zeros < registers[est_ret.idx]

\* C6 (the claim as stated): add uses the low p bits of the hash as the
\* register index, and the candidate it offers is the number of leading zero
\* bits of the (32 - p)-bit high part, capped at 32 - p, plus one (the cap
\* read either before or after the one is added).
C6_RankIsLeadingZerosPlusOne ==
    (est_state = "ok" /\ est_ret.op = "add") =>
        LET p == est_params.precision
            leading_zero_bits == (32 - p) - bit_length(shifted(est_ret.hash_val))
        IN  /\ est_ret.idx = est_ret.hash_val[2] % Pow2(p)
            /\ \/ est_ret.zeros = Min(leading_zero_bits, 32 - p) + 1
               \/ est_ret.zeros = Min(leading_zero_bits + 1, 32 - p)

\* C7: a step that is an estimate() call leaves registers and every other
\* field of the estimator unchanged, and an estimate() that follows an
\* estimate() returns the same value.
C7_EstimateIsPure ==
    [][ est_ret'.op = "estimate" =>
            /\ UNCHANGED <<est_state, kind, est_params, registers, alpha,
                           truncate_threshold>>
            /\ est_ret.op = "estimate" => est_ret'.result = est_ret.result
      ]_vars

\* C7 witness: estimate() has just returned a positive value on a
\* SuperLogLog whose register array is not in sorted order.
C7_Witness ==
    /\ est_state = "ok"
    /\ kind = "SuperLogLog"
    /\ est_ret.op = "estimate"
    /\ est_ret.result > 0
    /\ \E i, j \in DOMAIN registers : i < j /\ registers[i] > registers[j]

\* C10: construction with a precision outside 4..16 raises ValueError and
\* allocates no register array; with an accepted precision p the estimator
\* has exactly 2^p registers, all 0, and the number of registers never
\* changes afterwards.
C10_PrecisionValidated ==
    [][ /\ (est_state = "none" /\ est_state' # "none") =>
              IF 4 <= est_args' /\ est_args' <= 16
              THEN /\ est_state' = "ok"
                   /\ est_params'.num_registers = 2 ^ est_args'
                   /\ DOMAIN registers' = 0..(2 ^ est_args' - 1)
                   /\ \A i \in DOMAIN registers' : registers'[i] = 0
              ELSE /\ est_state' = "ValueError"
                   /\ registers' = <<>>
        /\ est_state = "ok" =>
              /\ est_state' = "ok"
              /\ est_params' = est_params
              /\ DOMAIN registers' = DOMAIN registers
      ]_vars

\* C10 witness: a construction with a precision outside 4..16 has raised
\* ValueError and there is no register array.
C10_Witness ==
    /\ est_state = "ValueError"
    /\ est_args \in {3, 17}
    /\ registers = <<>>

---------------------------------------------------------------------------
\* Claims: MinHash

\* C11 (the claim as stated): on every MinHash instance, compute_signature
\* of the empty set raises; it returns no signature.
C11_EmptySetRaises ==
    (mh_ret.op = "compute_signature" /\ mh_ret.args[1] = {}) =>
        mh_ret.result.err # "None"

\* C12 (the claim as stated): estimate_similarity of two signatures of
\* different lengths raises; it returns no number.
C12_MismatchedLengthsRaise ==
    (mh_ret.op = "estimate_similarity"
        /\ Len(mh_ret.args[1]) # Len(mh_ret.args[2])) =>
        mh_ret.result.err # "None"

\* C13 (the claim as stated, for BloomFilter.check and for MinHash): on an
\* instance built from valid parameters check returns one of its two
\* answers, and estimate_similarity of two signatures that compute_signature
\* returned on this instance returns a value.
C13_NoOperationRaises ==
    /\ (bf_state = "ok" /\ bf_ret.op = "check"
            /\ bf_args.expected_elements > 0
            /\ 0 < bf_args.false_positive_rate
            /\ bf_args.false_positive_rate < 100) =>
          bf_ret.result \in {"Probably present", "Definitely not present"}
    /\ (mh_state = "ok" /\ mh_ret.op = "estimate_similarity"
            /\ mh_ret.args[1] \in mh_produced
            /\ mh_ret.args[2] \in mh_produced) =>
          mh_ret.result.err = "None"

\* C15: no step changes the (a, b, p) of an instance's hash functions, and a
\* compute_signature of a non-empty set returns the signature the first
\* compute_signature of that set returned, whatever was called in between.
C15_SignaturesDeterministic ==
    [][ /\ mh_state = "ok" =>
              /\ hash_functions' = hash_functions
              /\ num_hashes' = num_hashes
        /\ (mh_ret'.op = "compute_signature" /\ mh_ret'.repeat
                /\ mh_ret'.args[1] # {}) =>
              /\ mh_ret'.result.err = "None"
              /\ mh_first[mh_ret'.args[1]] = {mh_ret'.result.value}
      ]_vars

\* C15 witness: a set has just been signed for the second time, after a
\* different set was signed, on an instance with two hash functions.
C15_Witness ==
    /\ mh_state = "ok"
    /\ num_hashes = 2
    /\ mh_ret.op = "compute_signature"
    /\ mh_ret.repeat
    /\ mh_ret.args[1] # {}
    /\ \E other \in SetInputs :
          /\ other # mh_ret.args[1]
          /\ mh_first[other] # {}
          /\ mh_first[other] # mh_first[mh_ret.args[1]]

\* C16: for two non-empty signatures of equal length estimate_similarity
\* returns (number of positions where they agree) / length, and it returns
\* 1.0 when the two signatures are the same.
C16_FractionOfAgreeingPositions ==
    (mh_ret.op = "estimate_similarity"
        /\ Len(mh_ret.args[1]) = Len(mh_ret.args[2])
        /\ Len(mh_ret.args[1]) > 0) =>
        LET sa == mh_ret.args[1]
            sb == mh_ret.args[2]
            agree == Cardinality({i \in 1..Len(sa) : sa[i] = sb[i]})
        IN  /\ mh_ret.result.err = "None"
            /\ mh_ret.result.value = <<agree, Len(sa)>>
            /\ sa = sb => mh_ret.result.value[1] = mh_ret.result.value[2]

\* C16 witness: two signatures of length 2 that agree at one position only
\* have just been compared.
C16_Witness ==
    /\ mh_ret.op = "estimate_similarity"
    /\ Len(mh_ret.args[1]) = 2
    /\ Len(mh_ret.args[2]) = 2
    /\ mh_ret.result.value = <<1, 2>>

\* C17: compute_jaccard_similarity(A, B) is |A n B| / |A u B| and lies in
\* [0, 1] when A and B are not both empty, and is 0 when both are empty.
C17_JaccardExact ==
    mh_ret.op = "compute_jaccard_similarity" =>
        LET set_a == mh_ret.args[1]
            set_b == mh_ret.args[2]
            both == {x \in Items : x \in set_a /\ x \in set_b}
            either == {x \in Items : x \in set_a \/ x \in set_b}
            v == mh_ret.result.value
        IN  /\ mh_ret.result.err = "None"
            /\ v[2] > 0
            /\ 0 <= v[1] /\ v[1] <= v[2]
            /\ either # {} => v[1] * Cardinality(either) = Cardinality(both) * v[2]
            /\ either = {} => v[1] = 0

\* C17 witness: the similarity of two different overlapping sets has just
\* been computed, and it is 1/2.
C17_Witness ==
    /\ mh_ret.op = "compute_jaccard_similarity"
    /\ mh_ret.args[1] # mh_ret.args[2]
    /\ mh_ret.args[1] \cap mh_ret.args[2] # {}
    /\ mh_ret.result.value = <<1, 2>>

---------------------------------------------------------------------------
\* Claims: hash indices

\* C18 (the claim as stated): on every BloomFilter, _get_hash_values(item)
\* has exactly hash_count entries, each in [0, size); on every
\* CountMinSketch, _get_hash_indices(item) has exactly depth entries, each
\* in [0, width).
C18_IndicesInRange ==
    /\ bf_state = "ok" =>
          \A item \in Items :
              /\ Cardinality(DOMAIN get_hash_values(item)) = hash_count
              /\ \A i \in DOMAIN get_hash_values(item) :
                    /\ 0 <= get_hash_values(item)[i]
                    /\ get_hash_values(item)[i] < size
    /\ (cms_state = "ok" /\ width # 0) =>
          \A item \in Items :
              /\ Cardinality(DOMAIN get_hash_indices(item)) = depth
              /\ \A i \in DOMAIN get_hash_indices(item) :
                    /\ 0 <= get_hash_indices(item)[i]
                    /\ get_hash_indices(item)[i] < width

\* C20 (the claim as stated): an add(item, count) that returns, count > 0,
\* leaves in each row r the cell at the seed-r index of item larger by
\* exactly count and every other cell as it was, and total_items larger by
\* exactly count; get_count changes neither the matrix nor total_items.
C20_AddFrame ==
    [][ /\ (cms_ret'.op = "add" /\ cms_ret'.result = "None") =>
              /\ DOMAIN sketch' = DOMAIN sketch
              /\ \A r \in DOMAIN sketch :
                    /\ DOMAIN sketch'[r] = DOMAIN sketch[r]
                    /\ \A c \in DOMAIN sketch[r] :
                          sketch'[r][c] =
                              IF c = get_hash_indices(cms_ret'.item)[r]
                              THEN IntAdd(sketch[r][c], cms_ret'.args)
                              ELSE sketch[r][c]
              /\ total_items' = IntAdd(total_items, cms_ret'.args)
        /\ cms_ret'.op = "get_count" =>
              /\ sketch' = sketch
              /\ total_items' = total_items
      ]_vars

---------------------------------------------------------------------------
\* Claims: CardinalityProcessor

\* C19: after every step of a CardinalityProcessor the register arrays of
\* its LogLog, SuperLogLog and HyperLogLog are element-wise identical.
C19_SameRegisters ==
    proc_state = "ok" =>
        /\ DOMAIN proc_registers["LogLog"] = 0..(est_params.num_registers - 1)
        /\ \A k \in Kinds :
              /\ DOMAIN proc_registers[k] = DOMAIN proc_registers["LogLog"]
              /\ \A j \in DOMAIN proc_registers[k] :
                    proc_registers[k][j] = proc_registers["LogLog"][j]

\* C19 witness: items have been processed that left at least two registers
\* of the HyperLogLog with different non-zero values.
C19_Witness ==
    /\ proc_state = "ok"
    /\ \E i, j \in DOMAIN proc_registers["HyperLogLog"] :
          /\ proc_registers["HyperLogLog"][i] > 0
          /\ proc_registers["HyperLogLog"][j] > proc_registers["HyperLogLog"][i]

---------------------------------------------------------------------------
\* Claims: sharding and merging

\* C14: however a stream is split between two shards, the bit-wise OR of the
\* shards' bit arrays, the cell-wise sum of the shards' matrices (a sum of
\* np.int64 arrays) with the sum of their total_items, and the register-wise
\* max of the shards' register arrays equal the arrays and total_items of
\* the instance fed the whole stream.
C14_MergeEqualsWhole ==
    /\ bf_shards # <<>> =>
          /\ DOMAIN bit_array = DOMAIN bf_shards[1]
          /\ \A i \in DOMAIN bit_array :
                bit_array[i] = Max(bf_shards[1][i], bf_shards[2][i])
    /\ cms_shards # <<>> =>
          /\ total_items =
                 IntAdd(cms_shards[1].total_items, cms_shards[2].total_items)
          /\ DOMAIN sketch = DOMAIN cms_shards[1].sketch
          /\ \A r \in DOMAIN sketch : \A c \in DOMAIN sketch[r] :
                sketch[r][c] = Int64(IntAdd(cms_shards[1].sketch[r][c],
                                            cms_shards[2].sketch[r][c]))
    /\ est_shards # <<>> =>
          /\ DOMAIN registers = DOMAIN est_shards[1]
          /\ \A j \in DOMAIN registers :
                registers[j] = Max(est_shards[1][j], est_shards[2][j])

\* C14 witness: the two shards of an estimator hold different values in one
\* register, each shard holds a register value the other lacks, and the
\* instance fed the whole stream holds three non-zero registers.
C14_Witness ==
    /\ est_shards # <<>>
    /\ \E j \in DOMAIN registers :
          /\ est_shards[1][j] > 0
          /\ est_shards[2][j] > est_shards[1][j]
    /\ \E j \in DOMAIN registers : est_shards[1][j] > est_shards[2][j]
    /\ Cardinality({j \in DOMAIN registers : registers[j] > 0}) >= 3

---------------------------------------------------------------------------
\* Claims: the corrections of HyperLogLog.estimate

\* C21: what HyperLogLog.estimate() has returned is the linear-counting
\* value when the raw estimate is at most 2.5 * m and some register is 0,
\* the large-range value when the raw estimate exceeds 2^32 / 30, and the
\* raw estimate itself in every other case, a raw estimate of at most
\* 2.5 * m with no zero register included.
C21_CorrectionByRule ==
    (est_state = "ok" /\ kind = "HyperLogLog" /\ est_ret.op = "estimate") =>
        \E raw \in {raw_estimate(registers)} :
            LET m == est_params.num_registers
                zero_register_count == CountOf(registers, 0)
                small == BigLeq(BigMulSmall(raw.num, 2),
                                BigMul(raw.den, BigFromInt(5 * m)))
                large == ~BigLeq(BigMulSmall(raw.num, 30),
                                 BigMul(raw.den, TwoPow32))
            IN  /\ (small /\ zero_register_count > 0) =>
                      est_ret.result = linear_counting(m, zero_register_count)
                /\ large => est_ret.result = large_range(raw.num, raw.den)
                /\ (~(small /\ zero_register_count > 0) /\ ~large) =>
                      est_ret.result = IntOfRatio(raw.num, raw.den)

\* C21 witness: estimate() has returned on a HyperLogLog whose raw estimate
\* exceeds 2^32 / 30, and the value returned is larger than the raw estimate.
C21_Witness ==
    /\ est_state = "ok"
    /\ kind = "HyperLogLog"
    /\ est_ret.op = "estimate"
    /\ \E raw \in {raw_estimate(registers)} :
        /\ ~BigLeq(BigMulSmall(raw.num, 30), BigMul(raw.den, TwoPow32))
        /\ est_ret.result > IntOfRatio(raw.num, raw.den)

\* C25: estimate() on a HyperLogLog whose registers are all 0, as they are
\* from construction until the first add, has returned 0, at every
\* precision.
C25_FreshEstimateIsZero ==
    ( /\ est_state = "ok"
      /\ kind = "HyperLogLog"
      /\ est_ret.op = "estimate"
      /\ \A j \in DOMAIN registers : registers[j] = 0 ) =>
        est_ret.result = 0

\* C25 witness: estimate() has returned 0 on a HyperLogLog(12) with 4096
\* registers, all 0.
C25_Witness ==
    /\ est_state = "ok"
    /\ kind = "HyperLogLog"
    /\ est_params.precision = 12
    /\ est_ret.op = "estimate"
    /\ est_ret.result = 0
    /\ DOMAIN registers = 0..4095
    /\ \A j \in DOMAIN registers : registers[j] = 0

---------------------------------------------------------------------------
\* Claims: the truncation of SuperLogLog.estimate

---------------------------------------------------------------------------
\* Claims: the row sums of CountMinSketch

\* C23 (the claim as stated): on a sketch with cells, the cells of every row
\* sum to total_items, total_items is the sum of the counts added, every
\* cell is between 0 and total_items, and so is every estimate get_count
\* has returned.
C23_RowSumsEqualTotal ==
    (cms_state = "ok" /\ depth > 0 /\ width > 0) =>
        /\ total_items = IntAdd(true_count["a"], true_count["b"])
        /\ \A i \in DOMAIN sketch :
              /\ row_sum(sketch, i, 0) = total_items
              /\ \A j \in DOMAIN sketch[i] :
                    /\ IntLeq(Small(0), sketch[i][j])
                    /\ IntLeq(sketch[i][j], total_items)
        /\ cms_ret.op = "get_count" =>
              /\ IntLeq(Small(0), cms_ret.result.estimated_count)
              /\ IntLeq(cms_ret.result.estimated_count, total_items)

---------------------------------------------------------------------------
\* Claims: the range of the registers

\* C24: in every state of a LogLog, SuperLogLog or HyperLogLog of precision
\* p, every register value lies in [0, 32 - p] and so within the signed
\* 8-bit range, and the register index of every hash value, the one add
\* has just used included, lies in [0, 2^p).
C24_RegistersInRange ==
    est_state = "ok" =>
        LET p == est_params.precision IN
        /\ \A j \in DOMAIN registers :
              /\ 0 <= registers[j]
              /\ registers[j] <= 32 - p
              /\ registers[j] <= 127
        /\ \A h \in HashInputs :
              0 <= get_register_index(h) /\ get_register_index(h) < 2 ^ p
        /\ est_ret.op = "add" => 0 <= est_ret.idx /\ est_ret.idx < 2 ^ p

\* C24 witness: add has just stored 31 - p, the largest value a hash can
\* yield, in the last register, index 2^p - 1.
C24_Witness ==
    /\ est_state = "ok"
    /\ est_ret.op = "add"
    /\ est_ret.idx = 2 ^ est_params.precision - 1
    /\ registers[est_ret.idx] = 31 - est_params.precision

=============================================================================
